---- MODULE Spec2Model ----
(***************************************************************************)
(* Model of python_openproject_api: the record normalizer                  *)
(* (backend/app/transformations/normalize.py and schema.py), the bundle    *)
(* filter, the CSV loader and the login of the dashboard                   *)
(* (backend/app/dashboard/app.py), the CSV exporter                        *)
(* (backend/app/exporters/powerbi.py), the OpenProject client              *)
(* (backend/app/openproject_api/client.py) and the API pipeline            *)
(* (backend/app/orchestration/run_api.py).                                 *)
(*                                                                         *)
(* A raw record is a Python dict: a sequence of <<key, value>> pairs in    *)
(* insertion order, keys distinct.  A value or a cell is a tagged triple:  *)
(*   <<"null", 0, 0>>      None / NaN / NaT / pd.NA                        *)
(*   <<"int", n, 0>>       the integer n                                   *)
(*   <<"float", n, t>>     the float n + t/10                              *)
(*   <<"numstr", n, 0>>    the decimal-digit string of n, e.g. "7"         *)
(*   <<"str", i, 0>>       a string that is neither a number nor a date    *)
(*   <<"dtstr", d, s>>     the ISO-8601 string of day d, second s of day   *)
(*   <<"date", d, 0>>      a datetime.date                                 *)
(*   <<"ts", d, s>>        a pandas Timestamp                              *)
(*   <<"bool", b, 0>>      a boolean (b = 1 for True)                      *)
(*   <<"datestr", d, 0>>   the string "YYYY-MM-DD" of day d, as CSV holds it *)
(*   <<"tsstr", d, s>>     the string "YYYY-MM-DD HH:MM:SS", as CSV holds it *)
(*   <<"emptystr", 0, 0>>  the empty string                                  *)
(* All date strings of the model use one textual format, so that           *)
(* pd.to_datetime(errors="coerce") converts a column element by element.   *)
(***************************************************************************)
EXTENDS Integers, Sequences, FiniteSets, TLC

\* normalize_records and its caller
VARIABLES records, schema_name, today, result, pc

\* the dashboard's bundle and its filters: the frames the interpreter holds
\* (object id -> frame), the loaded bundle, the selected filters, the bundle
\* _apply_filters returned
VARIABLES heap, bundle, selection, filtered, fpc

\* export_to_csv and the CSV folder: the kind of iterable `records` is, the
\* output directory and its files, what export_to_csv gave back, the frame
\* read back from the CSV file
VARIABLES source, fs, export_result, reloaded

\* export_many_to_csv: the datasets it is given, in the order of the dict,
\* and what it gave back
VARIABLES datasets, batch_result

\* the module-level dict SCHEMAS of schema.py as the process holds it
VARIABLES registry

\* run_api and export_to_powerbi: the settings, the entry point and the
\* page size of the run, the elements the OpenProject server holds, the
\* position of the run, the locals of the list method in progress, the
\* lists the client has returned, the HTTP requests issued so far, what the
\* entry point gave back, the setting OPENPROJECT_WORK_PACKAGES_FILTERS_JSON
\* and the filters_json argument of list_work_packages
VARIABLES config, entry, page_size, server, api_pc, loop, collected,
          requests, api_result, filters_setting, filters_json

\* the dashboard's login: the rows of the table dashboard_users, the
\* st.session_state of the browser session, and what the last run of the
\* script did
VARIABLES users, session, run

normVars == <<records, schema_name, today, result, pc>>
filterVars == <<heap, bundle, selection, filtered, fpc>>
exportVars == <<source, fs, export_result, reloaded>>
batchVars == <<datasets, batch_result>>
effectVars == <<registry>>
apiVars == <<config, entry, page_size, server, api_pc, loop, collected,
             requests, api_result, filters_setting, filters_json>>

authVars == <<users, session, run>>

vars ==
  <<normVars, filterVars, exportVars, batchVars, effectVars, apiVars,
    authVars>>

\* Bounds of the model: records per call, fields per call (over all records).
MaxRecords == 2
MaxFields == 3

\* Bound of the model: work package rows of a bundle.
MaxRows == 3

\* Bounds of the model: records and fields of the iterable given to
\* export_to_csv.
MaxSourceRecords == 1
MaxSourceFields == 2

\* Bound of the model: entries of the dict given to export_many_to_csv.
MaxDatasets == 2

\* Bound of the model: elements of one kind the OpenProject server holds.
MaxElements == 2

----------------------------------------------------------------------------
\* Values

Null == <<"null", 0, 0>>
IntV(n) == <<"int", n, 0>>
FloatV(n, t) == <<"float", n, t>>
NumStr(n) == <<"numstr", n, 0>>
Str(i) == <<"str", i, 0>>
DtStr(d, s) == <<"dtstr", d, s>>
DateV(d) == <<"date", d, 0>>
TsV(d, s) == <<"ts", d, s>>
BoolV(b) == <<"bool", IF b THEN 1 ELSE 0, 0>>

IsNull(v) == v[1] = "null"

Range(s) == {s[i] : i \in 1..Len(s)}
InSeq(s, x) == \E i \in 1..Len(s) : s[i] = x
Front(s) == SubSeq(s, 1, Len(s) - 1)
Last(s) == s[Len(s)]

----------------------------------------------------------------------------
\* schema.py

SCHEMAS ==
  [projects |->
     <<"project_id", "project_name", "project_status", "project_href",
       "updated_at">>,
   work_packages |->
     <<"wp_id", "wp_subject", "wp_type", "wp_status", "wp_priority",
       "project_id", "project_name", "assignee", "author", "start_date",
       "due_date", "done_ratio", "created_at", "updated_at", "is_late">>]

\* schema_name=None
None == "<None>"

\* `schema_name and schema_name in SCHEMAS`
Registered(name) == name # None /\ name \in DOMAIN SCHEMAS

----------------------------------------------------------------------------
\* Raw records (dicts)

Keys(rec) == [i \in 1..Len(rec) |-> rec[i][1]]
HasKey(rec, k) == \E i \in 1..Len(rec) : rec[i][1] = k
Get(rec, k) == rec[CHOOSE i \in 1..Len(rec) : rec[i][1] = k][2]

----------------------------------------------------------------------------
\* pandas data frames: columns in order, one row (column -> cell) per record

\* the columns, then the keys of a dict that are no column yet
AppendNew(cols, keys) ==
  LET IsNew(k) == ~InSeq(cols, k) IN cols \o SelectSeq(keys, IsNew)

\* the union of the records' keys, each at its first appearance
RECURSIVE UnionOfKeys(_)
UnionOfKeys(recs) ==
  IF recs = <<>> THEN <<>>
  ELSE AppendNew(UnionOfKeys(Front(recs)), Keys(Last(recs)))

\* pd.DataFrame.from_records(records_list): a key a record lacks is NaN; the
\* row index is taken from the column arrays, so records without any key
\* give a frame of no columns and no rows
FromRecords(recs) ==
  LET cols == UnionOfKeys(recs) IN
  [columns |-> cols,
   rows |-> IF cols = <<>> THEN <<>>
            ELSE [i \in 1..Len(recs) |->
                    [c \in Range(cols) |->
                       IF HasKey(recs[i], c) THEN Get(recs[i], c) ELSE Null]]]

\* pd.DataFrame(): no rows and no columns
EmptyFrameNoColumns(cols) == [columns |-> <<>>, rows |-> <<>>]

\* pd.DataFrame(columns=...): no rows
EmptyFrame(cols) == [columns |-> cols, rows |-> <<>>]

\* df.empty: no rows or no columns
IsEmpty(df) == Len(df.rows) = 0 \/ Len(df.columns) = 0

\* df[col] = cells: replaces the column in place, or appends it
AssignColumn(df, col, cells) ==
  [columns |-> IF InSeq(df.columns, col) THEN df.columns
               ELSE Append(df.columns, col),
   rows |-> [i \in 1..Len(df.rows) |->
               [c \in Range(df.columns) \cup {col} |->
                  IF c = col THEN cells[i] ELSE df.rows[i][c]]]]

\* df[columns]: the listed columns, in the listed order
SelectColumns(df, cols) ==
  [columns |-> cols,
   rows |-> [i \in 1..Len(df.rows) |-> [c \in Range(cols) |-> df.rows[i][c]]]]

----------------------------------------------------------------------------
\* Element conversions of pandas

\* pd.to_datetime(x, errors="coerce")
ToDatetime(v) ==
  CASE v[1] = "dtstr" -> TsV(v[2], v[3])
    [] v[1] = "tsstr" -> TsV(v[2], v[3])
    [] v[1] = "datestr" -> TsV(v[2], 0)
    [] v[1] = "ts" -> v
    [] v[1] = "date" -> TsV(v[2], 0)
    [] v[1] = "str" -> Null
    [] v[1] = "null" -> Null

\* the timestamp kept as it is, .dt.date forgotten
DtDateKeepsTime(v) == v

\* .dt.date
DtDate(v) ==
  CASE v[1] = "ts" -> DateV(v[2])
    [] v[1] = "null" -> Null

\* pd.to_numeric(x, errors="coerce")
ToNumeric(v) ==
  CASE v[1] = "int" -> v
    [] v[1] = "float" -> v
    [] v[1] = "numstr" -> FloatV(v[2], 0)
    [] v[1] = "str" -> Null
    [] v[1] = "dtstr" -> Null
    [] v[1] = "tsstr" -> Null
    [] v[1] = "datestr" -> Null
    [] v[1] = "null" -> Null

\* .astype("Int64") raises TypeError on a float that is not a whole number
CannotCastInt64(v) == v[1] = "float" /\ v[3] # 0

\* .astype("Int64"), element by element
AsInt64(v) ==
  CASE v[1] = "int" -> v
    [] v[1] = "float" -> IntV(v[2])
    [] v[1] = "null" -> Null

----------------------------------------------------------------------------
\* normalize.py

\* _coerce_dates
RECURSIVE coerce_dates(_, _)
coerce_dates(df, cols) ==
  IF cols = <<>> THEN df
  ELSE coerce_dates(
         IF InSeq(df.columns, Head(cols))
         THEN AssignColumn(df, Head(cols),
                           [i \in 1..Len(df.rows) |->
                              DtDate(ToDatetime(df.rows[i][Head(cols)]))])
         ELSE df,
         Tail(cols))

\* _coerce_datetimes
RECURSIVE coerce_datetimes(_, _)
coerce_datetimes(df, cols) ==
  IF cols = <<>> THEN df
  ELSE coerce_datetimes(
         IF InSeq(df.columns, Head(cols))
         THEN AssignColumn(df, Head(cols),
                           [i \in 1..Len(df.rows) |->
                              ToDatetime(df.rows[i][Head(cols)])])
         ELSE df,
         Tail(cols))

\* _coerce_int raises when .astype("Int64") meets a float that is not whole
coerce_int_raises(df, cols) ==
  \E c \in Range(cols) \cap Range(df.columns) :
    \E i \in 1..Len(df.rows) : CannotCastInt64(ToNumeric(df.rows[i][c]))

\* _coerce_int, when it does not raise
RECURSIVE coerce_int(_, _)
coerce_int(df, cols) ==
  IF cols = <<>> THEN df
  ELSE coerce_int(
         IF InSeq(df.columns, Head(cols))
         THEN AssignColumn(df, Head(cols),
                           [i \in 1..Len(df.rows) |->
                              AsInt64(ToNumeric(df.rows[i][Head(cols)]))])
         ELSE df,
         Tail(cols))

\* _ensure_columns
AddMissing(df, cols) ==
  LET IsMissing(c) == ~InSeq(df.columns, c)
      missing == SelectSeq(cols, IsMissing)
  IN  [columns |-> df.columns \o missing,
       rows |-> [i \in 1..Len(df.rows) |->
                   [c \in Range(df.columns) \cup Range(missing) |->
                      IF IsMissing(c) THEN Null ELSE df.rows[i][c]]]]

\* _ensure_columns returning df instead of df[columns]
ensure_columns_keeps_extras(df, columns) == AddMissing(df, columns)

ensure_columns(df, columns) == SelectColumns(AddMissing(df, columns), columns)

\* What a call gives back: a data frame, or an exception
Ok(df) ==
  [status |-> "ok", error |-> "", columns |-> df.columns, rows |-> df.rows]
Raised(e) ==
  [status |-> "raised", error |-> e, columns |-> <<>>, rows |-> <<>>]
NoCall ==
  [status |-> "none", error |-> "", columns |-> <<>>, rows |-> <<>>]
Frame(r) == [columns |-> r.columns, rows |-> r.rows]

\* lines 80-85: one row's is_late, on the frame after the coercions, with
\* t the day pd.Timestamp.today().date() gives
is_late(row, t) ==
  LET due == DtDate(ToDatetime(row["due_date"]))
      done == ToNumeric(row["done_ratio"])
      is_open == (IF IsNull(done) THEN 0 ELSE done[2]) < 100
  IN  ~IsNull(due) /\ due[2] < t /\ is_open

\* lines 79-86: df.get("done_ratio", 0) is the scalar 0 when the frame has no
\* done_ratio column, and 0 has no fillna
derive_is_late(df, t) ==
  IF ~InSeq(df.columns, "due_date") THEN Ok(df)
  ELSE IF ~InSeq(df.columns, "done_ratio") THEN Raised("AttributeError")
  ELSE Ok(AssignColumn(df, "is_late",
                       [i \in 1..Len(df.rows) |-> BoolV(is_late(df.rows[i], t))]))

\* lines 73-86
work_packages_rules(df, t) ==
  LET dated == coerce_datetimes(
                 coerce_dates(df, <<"start_date", "due_date">>),
                 <<"created_at", "updated_at">>)
      ints == <<"wp_id", "project_id", "done_ratio">>
  IN  IF coerce_int_raises(dated, ints) THEN Raised("TypeError")
      ELSE derive_is_late(coerce_int(dated, ints), t)

\* line 73 with the test inverted to "not the projects schema"
is_not_projects(name) == name # "projects"

\* line 73
is_work_packages(name) == name = "work_packages"

normalize_records(recs, name, t) ==
  LET df == FromRecords(recs) IN
  IF IsEmpty(df) /\ Registered(name) THEN Ok(EmptyFrame(SCHEMAS[name]))
  ELSE
    LET projected ==
          IF name = "projects" THEN coerce_datetimes(df, <<"updated_at">>)
          ELSE df
        typed ==
          IF is_work_packages(name) THEN work_packages_rules(projected, t)
          ELSE Ok(projected)
    IN  IF typed.status = "raised" THEN typed
        ELSE IF Registered(name)
             THEN Ok(ensure_columns(Frame(typed), SCHEMAS[name]))
             ELSE typed

----------------------------------------------------------------------------
\* The callers' inputs

SchemaNames == {"projects", "work_packages", "unknown_schema", None}

\* the day of the call; the due dates of FieldValues lie before it and on it
Days == {2}

\* the keys a caller may put in a record, in the order it inserts them
KeyOrder ==
  <<"project_id", "project_name", "start_date", "due_date", "done_ratio",
    "created_at", "updated_at", "is_late">>

KeyIndex(k) == CHOOSE i \in 1..Len(KeyOrder) : KeyOrder[i] = k

FieldValues ==
  [project_id |-> {NumStr(42)},
   project_name |-> {Str(2)},
   start_date |-> {DtStr(1, 30)},
   due_date |-> {DtStr(1, 30), DtStr(2, 30), Str(1), Null},
   done_ratio |-> {IntV(50), IntV(100), Str(1), FloatV(3, 5)},
   created_at |-> {DtStr(1, 30)},
   updated_at |-> {DtStr(2, 30), Str(1)},
   is_late |-> {BoolV(TRUE)}]

RECURSIVE TotalFields(_)
TotalFields(recs) ==
  IF recs = <<>> THEN 0 ELSE Len(Head(recs)) + TotalFields(Tail(recs))

----------------------------------------------------------------------------
\* State machine: a caller builds a list of records and calls
\* normalize_records on it once

NormInit ==
  /\ records = <<>>
  /\ schema_name = None
  /\ today = Null
  /\ result = NoCall
  /\ pc = "input"

\* no bundle is loaded
NoBundle == [projects |-> 0, work_packages |-> 0]

FilterIdle ==
  /\ heap = <<>>
  /\ bundle = NoBundle
  /\ selection = <<{}, {}, {}>>
  /\ filtered = NoBundle
  /\ fpc = "idle"

\* a file that does not exist, and a file written before the run
NoFile == [exists |-> FALSE, bom |-> FALSE, header |-> <<>>, lines |-> <<>>]
OldFile == [exists |-> TRUE, bom |-> FALSE, header |-> <<"old">>, lines |-> <<>>]

Filenames == {"projects.csv", "work_packages.csv"}

NoExport == [status |-> "none", error |-> "", path |-> <<>>]

ExportIdle ==
  /\ source = "list"
  /\ fs = [dir |-> FALSE, files |-> [f \in Filenames |-> NoFile]]
  /\ export_result = NoExport
  /\ reloaded = NoCall

NoBatch == [status |-> "none", error |-> "", paths |-> <<>>]

BatchIdle ==
  /\ datasets = <<>>
  /\ batch_result = NoBatch

\* SCHEMAS as schema.py builds it at import
RegistryInit == registry = SCHEMAS

\* the locals offset, total and out of a list method; total is None until
\* the first response
NoLoop == [offset |-> 0, total_known |-> FALSE, total |-> 0, out |-> <<>>]

NoLists == [projects |-> [returned |-> FALSE, items |-> <<>>],
            work_packages |-> [returned |-> FALSE, items |-> <<>>]]

NoApiResult == [status |-> "none", error |-> "", frames |-> <<>>]

\* no run of the API pipeline
ApiIdle ==
  /\ config = [base_url |-> "", api_key |-> ""]
  /\ entry = "none"
  /\ page_size = 0
  /\ server = [projects |-> 0, work_packages |-> 0]
  /\ api_pc = "idle"
  /\ loop = NoLoop
  /\ collected = NoLists
  /\ requests = <<>>
  /\ api_result = NoApiResult
  /\ filters_setting = ""
  /\ filters_json = None

\* st.session_state of a new browser session: no key is set; a key that is
\* not set reads as the default its reader gives to get(); the user id 0
\* stands for None (AUTOINCREMENT ids start at 1)
NoSession ==
  [keys |-> {}, is_authenticated |-> FALSE, authenticated_user_id |-> 0,
   authenticated_username |-> <<>>, authenticated_is_admin |-> FALSE]

\* no widget event
NoEvent ==
  [kind |-> "none", username |-> <<>>, password |-> <<>>, confirm |-> <<>>,
   is_admin |-> FALSE, salt |-> 0]

\* None of _authenticate_user
NoUser == [found |-> FALSE, id |-> 0, username |-> <<>>, is_admin |-> FALSE]

\* no run of the script yet
NoRun ==
  [event |-> NoEvent, shown |-> "none", create_user_form |-> FALSE,
   reached_data |-> FALSE, authenticated_at_start |-> FALSE,
   authenticate |-> [called |-> FALSE, user |-> NoUser],
   create |-> [called |-> FALSE, ok |-> FALSE, message |-> ""],
   rerun |-> FALSE]

\* the dashboard is not open
AuthIdle == users = <<>> /\ session = NoSession /\ run = NoRun

Init ==
  NormInit /\ FilterIdle /\ ExportIdle /\ BatchIdle /\ RegistryInit /\ AuthIdle /\ ApiIdle

\* the caller starts another record
AddRecord ==
  /\ pc = "input"
  /\ Len(records) < MaxRecords
  /\ records' = Append(records, <<>>)
  /\ UNCHANGED <<schema_name, today, result, pc>>
  /\ UNCHANGED <<filterVars, exportVars, batchVars, effectVars, apiVars, authVars>>

\* the caller sets one more key of the record it is building
AddField(k, v) ==
  /\ pc = "input"
  /\ Len(records) > 0
  /\ TotalFields(records) < MaxFields
  /\ \A i \in 1..Len(Last(records)) :
       KeyIndex(Last(records)[i][1]) < KeyIndex(k)
  /\ records' = [records EXCEPT ![Len(records)] = Append(@, <<k, v>>)]
  /\ UNCHANGED <<schema_name, today, result, pc>>
  /\ UNCHANGED <<filterVars, exportVars, batchVars, effectVars, apiVars, authVars>>

\* normalize_records(records, schema_name=name), called on the day t of the
\* process-local calendar
Normalize(name, t) ==
  /\ pc = "input"
  /\ result' = normalize_records(records, name, t)
  /\ schema_name' = name
  /\ today' = DateV(t)
  /\ pc' = "returned"
  /\ UNCHANGED records
  /\ UNCHANGED <<filterVars, exportVars, batchVars, effectVars, apiVars, authVars>>

Next ==
  \/ AddRecord
  \/ \E k \in DOMAIN FieldValues : \E v \in FieldValues[k] : AddField(k, v)
  \/ \E name \in SchemaNames : \E t \in Days : Normalize(name, t)

Spec == Init /\ [][Next]_vars

----------------------------------------------------------------------------
\* dashboard/app.py: DataBundle and _apply_filters
\*
\* Frames are objects: heap[id] is the frame of object id, and a bundle holds
\* the ids of its two frames.

\* @dataclass(frozen=True) class DataBundle
DataBundle(projects, work_packages) ==
  [projects |-> projects, work_packages |-> work_packages]

\* series.isin(values), for one cell: NaN is in no list of strings
isin(v, values) == ~IsNull(v) /\ v \in values

\* the rows the mask keeps, last row first
RowsIsinReversed(df, col, values) ==
  LET Keep(row) == isin(row[col], values)
      kept == SelectSeq(df.rows, Keep)
  IN  [columns |-> df.columns,
       rows |-> [i \in 1..Len(kept) |-> kept[Len(kept) + 1 - i]]]

\* wps[wps[col].isin(values)]: a new frame of the rows the mask keeps
RowsIsin(df, col, values) ==
  LET Keep(row) == isin(row[col], values)
  IN  [columns |-> df.columns, rows |-> SelectSeq(df.rows, Keep)]

\* the test of lines 1096-1100 without the emptiness test
filter_applies_when_empty(flt, df, col) == InSeq(df.columns, col)

\* `if project_filter and "project_name" in wps.columns`
filter_applies(flt, df, col) == flt # {} /\ InSeq(df.columns, col)

\* one `if ...: wps = wps[...]` of lines 1096-1101; st is the heap and the
\* object wps names
filter_step(st, flt, col) ==
  IF filter_applies(flt, st.heap[st.wps], col)
  THEN [heap |-> Append(st.heap, RowsIsin(st.heap[st.wps], col, flt)),
        wps |-> Len(st.heap) + 1]
  ELSE st

\* _apply_filters dropping the rows from bundle.work_packages in place and
\* returning the bundle's own frame
apply_filters_in_place(h, b, project_filter, status_filter, priority_filter) ==
  LET s1 == RowsIsin(h[b.work_packages], "project_name", project_filter)
      s2 == RowsIsin(IF project_filter # {} THEN s1 ELSE h[b.work_packages],
                     "wp_status", status_filter)
  IN  [heap |-> [h EXCEPT ![b.work_packages] =
                   IF status_filter # {} THEN s2
                   ELSE IF project_filter # {} THEN s1 ELSE @],
       bundle |-> DataBundle(b.projects, b.work_packages)]

\* _apply_filters: the heap after the call and the bundle returned
apply_filters(h, b, project_filter, status_filter, priority_filter) ==
  LET s0 == [heap |-> Append(h, h[b.work_packages]), wps |-> Len(h) + 1]
      s1 == filter_step(s0, project_filter, "project_name")
      s2 == filter_step(s1, status_filter, "wp_status")
      s3 == filter_step(s2, priority_filter, "wp_priority")
  IN  [heap |-> s3.heap, bundle |-> DataBundle(b.projects, s3.wps)]

\* The values of the filter columns
ProjectNames == {Str(1), Str(2)}
Statuses == {Str(3), Str(4)}
Priorities == {Str(5)}
Closed == Str(3)

\* a row of a normalized work_packages frame
WpRow(id, p, s, q) ==
  [c \in Range(SCHEMAS["work_packages"]) |->
     CASE c = "wp_id" -> IntV(id)
       [] c = "project_name" -> p
       [] c = "wp_status" -> s
       [] c = "wp_priority" -> q
       [] OTHER -> Null]

\* normalized projects frames
ProjectRow(p) ==
  [c \in Range(SCHEMAS["projects"]) |->
     IF c = "project_name" THEN p ELSE Null]

ProjectFrames ==
  {EmptyFrame(SCHEMAS["projects"]),
   [columns |-> SCHEMAS["projects"], rows |-> <<ProjectRow(Str(1))>>]}

\* _load_from_api / _load_from_csv_folder: a bundle of two normalized
\* frames, objects 1 and 2
FilterInit ==
  /\ heap \in {<<pf, EmptyFrame(SCHEMAS["work_packages"])>> :
                 pf \in ProjectFrames}
  /\ bundle = DataBundle(1, 2)
  /\ selection = <<{}, {}, {}>>
  /\ filtered = NoBundle
  /\ fpc = "loading"

\* one more row of the work_packages frame the loader returns
LoadWorkPackage(p, s, q) ==
  /\ fpc = "loading"
  /\ Len(heap[2].rows) < MaxRows
  /\ heap' = [heap EXCEPT
                ![2].rows = Append(@, WpRow(Len(heap[2].rows) + 1, p, s, q))]
  /\ UNCHANGED <<bundle, selection, filtered, fpc>>
  /\ UNCHANGED <<normVars, exportVars, batchVars, effectVars, apiVars, authVars>>

\* filtered = _apply_filters(bundle, project_filter, status_filter,
\*                           priority_filter)
ApplyFilters(project_filter, status_filter, priority_filter) ==
  /\ fpc = "loading"
  /\ LET r == apply_filters(heap, bundle, project_filter, status_filter,
                            priority_filter)
     IN  heap' = r.heap /\ filtered' = r.bundle
  /\ selection' = <<project_filter, status_filter, priority_filter>>
  /\ fpc' = "filtered"
  /\ UNCHANGED bundle
  /\ UNCHANGED <<normVars, exportVars, batchVars, effectVars, apiVars, authVars>>

FilterNext ==
  \/ \E p \in ProjectNames : \E s \in Statuses :
       \E q \in Priorities \cup {Null} : LoadWorkPackage(p, s, q)
  \/ \E pf \in SUBSET ProjectNames : \E sf \in SUBSET Statuses :
       \E qf \in SUBSET Priorities : ApplyFilters(pf, sf, qf)

FilterSpecInit ==
  FilterInit /\ NormInit /\ ExportIdle /\ BatchIdle /\ RegistryInit /\ AuthIdle /\ ApiIdle

FilterSpec == FilterSpecInit /\ [][FilterNext]_vars

----------------------------------------------------------------------------
----------------------------------------------------------------------------
\* The CSV exporter (backend/app/exporters/powerbi.py) and the CSV folder
\* the dashboard reads back (backend/app/dashboard/app.py)

\* `records` is any iterable: a list, a one-shot iterator not yet consumed,
\* a one-shot iterator already consumed, an iterable whose iteration raises
SourceKinds == {"list", "iterator", "exhausted", "broken"}

\* the exception of the iteration caught, the iterable taken as empty
list_swallows(kind) == FALSE

\* list(records) raises what the iteration raises
list_raises(kind) == kind = "broken"

\* list(records): an exhausted iterator yields nothing
list_of(kind, items) == IF kind = "exhausted" THEN <<>> ELSE items

\* the iterable after list(records) has drained it
source_after(kind) == IF kind = "iterator" THEN "exhausted" ELSE kind

\* normalize_records(records, schema_name) on an iterable
normalize_call(kind, items, name, t) ==
  IF list_raises(kind) THEN Raised("IterationError")
  ELSE normalize_records(list_of(kind, items), name, t)

\* the text of one cell in the CSV file
CsvText(v) ==
  CASE v[1] = "null" -> <<"", 0, 0>>
    [] v[1] = "emptystr" -> <<"", 0, 0>>
    [] v[1] = "int" -> <<"digits", v[2], 0>>
    [] v[1] = "numstr" -> <<"digits", v[2], 0>>
    [] v[1] = "float" -> <<"decimal", v[2], v[3]>>
    [] v[1] = "str" -> <<"text", v[2], 0>>
    [] v[1] = "dtstr" -> <<"isotext", v[2], v[3]>>
    [] v[1] = "datestr" -> <<"datetext", v[2], 0>>
    [] v[1] = "tsstr" -> <<"tstext", v[2], v[3]>>
    [] v[1] = "date" -> <<"datetext", v[2], 0>>
    [] v[1] = "ts" -> <<"tstext", v[2], v[3]>>
    [] v[1] = "bool" -> <<"booltext", v[2], 0>>

\* df.to_csv(index=False, encoding="utf-8-sig"): a byte order mark, the
\* header line, one line per row
to_csv(df) ==
  [exists |-> TRUE,
   bom |-> TRUE,
   header |-> df.columns,
   lines |-> [i \in 1..Len(df.rows) |->
                [c \in Range(df.columns) |-> CsvText(df.rows[i][c])]]]

\* opening the file in append mode: the old lines stay
write_file_append(old, new) ==
  IF old.exists THEN [old EXCEPT !.lines = old.lines \o new.lines] ELSE new

\* to_csv opens the file in mode "w": the old content is gone
write_file(old, new) == new

\* out_path = output_dir / filename
out_path(filename) == <<"output_dir", filename>>

\* export_to_csv(records, filename, schema_name): the file system after the
\* call, the frame normalize_records gave, and the returned path or the
\* exception
export_to_csv(files, kind, items, filename, name, t) ==
  LET made == [files EXCEPT !.dir = TRUE]
      df == normalize_call(kind, items, name, t)
  IN  IF df.status = "raised"
        THEN [fs |-> made, df |-> df,
              out |-> [status |-> "raised", error |-> df.error,
                       path |-> <<>>]]
        ELSE [fs |-> [made EXCEPT !.files[filename] =
                        write_file(@, to_csv(Frame(df)))],
              df |-> df,
              out |-> [status |-> "ok", error |-> "",
                       path |-> out_path(filename)]]

\* pd.read_csv infers one type per column: a column of digit fields is
\* int64, a numeric column with an empty or a decimal field is float64, a
\* column of True/False is bool, any other column holds strings; an empty
\* field is NaN
NumericTexts(texts) ==
  /\ \E i \in 1..Len(texts) : texts[i][1] # ""
  /\ \A i \in 1..Len(texts) : texts[i][1] \in {"", "digits", "decimal"}

FloatTexts(texts) ==
  \E i \in 1..Len(texts) : texts[i][1] \in {"", "decimal"}

ParseField(x, texts) ==
  CASE x[1] = "" -> Null
    [] x[1] = "digits" ->
         IF NumericTexts(texts)
           THEN IF FloatTexts(texts) THEN FloatV(x[2], 0) ELSE IntV(x[2])
           ELSE NumStr(x[2])
    [] x[1] = "decimal" ->
         IF NumericTexts(texts) THEN FloatV(x[2], x[3])
         ELSE <<"floatstr", x[2], x[3]>>
    [] x[1] = "text" -> Str(x[2])
    [] x[1] = "isotext" -> DtStr(x[2], x[3])
    [] x[1] = "datetext" -> <<"datestr", x[2], 0>>
    [] x[1] = "tstext" -> <<"tsstr", x[2], x[3]>>
    [] x[1] = "booltext" -> BoolV(x[2] = 1)

\* pd.read_csv(path).to_dict("records"): every record has every column of
\* the header, in the header's order; the byte order mark is skipped
read_csv_records(file) ==
  LET ColumnTexts(c) == [i \in 1..Len(file.lines) |-> file.lines[i][c]]
  IN  [i \in 1..Len(file.lines) |->
        [j \in 1..Len(file.header) |->
          <<file.header[j],
            ParseField(file.lines[i][file.header[j]],
                       ColumnTexts(file.header[j]))>>]]

\* State machine: a caller builds the items of an iterable and calls
\* export_to_csv or normalize_records on it once; the dashboard then reads
\* the exported file back

ExportInit ==
  /\ NormInit
  /\ FilterIdle
  /\ source \in SourceKinds
  /\ fs \in {[dir |-> FALSE, files |-> [f \in Filenames |-> NoFile]],
             [dir |-> TRUE, files |-> [f \in Filenames |-> OldFile]]}
  /\ export_result = NoExport
  /\ reloaded = NoCall
  /\ BatchIdle
  /\ RegistryInit /\ AuthIdle
  /\ ApiIdle

\* an iterable that yields items: a list or an iterator not yet consumed
Yields(kind) == kind \in {"list", "iterator"}

SourceAddRecord ==
  /\ pc = "input"
  /\ Yields(source)
  /\ Len(records) < MaxSourceRecords
  /\ records' = Append(records, <<>>)
  /\ UNCHANGED <<schema_name, today, result, pc>>
  /\ UNCHANGED <<filterVars, exportVars, batchVars, effectVars, apiVars, authVars>>

SourceAddField(k, v) ==
  /\ pc = "input"
  /\ Yields(source)
  /\ Len(records) > 0
  /\ TotalFields(records) < MaxSourceFields
  /\ \A i \in 1..Len(Last(records)) :
       KeyIndex(Last(records)[i][1]) < KeyIndex(k)
  /\ records' = [records EXCEPT ![Len(records)] = Append(@, <<k, v>>)]
  /\ UNCHANGED <<schema_name, today, result, pc>>
  /\ UNCHANGED <<filterVars, exportVars, batchVars, effectVars, apiVars, authVars>>

\* normalize_records(records, schema_name=name) on the iterable
NormalizeIterable(name, t) ==
  /\ pc = "input"
  /\ result' = normalize_call(source, records, name, t)
  /\ source' = source_after(source)
  /\ schema_name' = name
  /\ today' = DateV(t)
  /\ pc' = "returned"
  /\ UNCHANGED <<records, fs, export_result, reloaded>>
  /\ UNCHANGED <<filterVars, batchVars, effectVars, apiVars, authVars>>

\* export_to_csv(records, filename, schema_name=name)
ExportToCsv(filename, name, t) ==
  /\ pc = "input"
  /\ LET e == export_to_csv(fs, source, records, filename, name, t)
     IN  /\ fs' = e.fs
         /\ result' = e.df
         /\ export_result' = e.out
  /\ source' = source_after(source)
  /\ schema_name' = name
  /\ today' = DateV(t)
  /\ pc' = "exported"
  /\ UNCHANGED <<records, reloaded>>
  /\ UNCHANGED <<filterVars, batchVars, effectVars, apiVars, authVars>>

\* the file export_to_csv wrote
Exported == export_result.path[2]

\* the file _load_from_csv_folder reads under each schema
CsvOf == [projects |-> "projects.csv", work_packages |-> "work_packages.csv"]

\* _load_from_csv_folder on the same day, when both files exist: the
\* exported file read back and normalized under the schema of its name
LoadFromCsvFolder ==
  /\ pc = "exported"
  /\ export_result.status = "ok"
  /\ Registered(schema_name)
  /\ Exported = CsvOf[schema_name]
  /\ \A f \in Filenames : fs.files[f].exists
  /\ reloaded' = normalize_records(read_csv_records(fs.files[Exported]),
                                   schema_name, today[2])
  /\ pc' = "reloaded"
  /\ UNCHANGED <<records, schema_name, today, result>>
  /\ UNCHANGED <<source, fs, export_result>>
  /\ UNCHANGED <<filterVars, batchVars, effectVars, apiVars, authVars>>

ExportNext ==
  \/ SourceAddRecord
  \/ \E k \in DOMAIN FieldValues : \E v \in FieldValues[k] :
       SourceAddField(k, v)
  \/ \E name \in SchemaNames : \E t \in Days : NormalizeIterable(name, t)
  \/ \E f \in Filenames : \E name \in SchemaNames : \E t \in Days :
       ExportToCsv(f, name, t)
  \/ LoadFromCsvFolder

ExportSpec == ExportInit /\ [][ExportNext]_vars

\* export_many_to_csv(datasets): the entries of the dict exported one after
\* the other by export_to_csv, from the file system `files` on, `paths`
\* being the results collected so far; an exception of export_to_csv leaves
\* the loop and the function
RECURSIVE export_many_loop(_, _, _, _)
export_many_loop(files, entries, paths, t) ==
  IF entries = <<>>
    THEN [fs |-> files,
          out |-> [status |-> "ok", error |-> "", paths |-> paths]]
    ELSE LET d == Head(entries)
             e == export_to_csv(files, d.kind, d.items, d.filename,
                                d.schema_name, t)
         IN  IF e.out.status = "raised"
               THEN [fs |-> e.fs,
                     out |-> [status |-> "raised", error |-> e.out.error,
                              paths |-> <<>>]]
               ELSE export_many_loop(
                      e.fs, Tail(entries),
                      Append(paths, <<d.schema_name, e.out.path>>), t)

export_many_to_csv(files, entries, t) ==
  export_many_loop(files, entries, <<>>, t)

\* State machine: a caller builds the dict of datasets and calls
\* export_many_to_csv on it once

BatchInit ==
  /\ NormInit
  /\ FilterIdle
  /\ source = "list"
  /\ fs \in {[dir |-> FALSE, files |-> [f \in Filenames |-> NoFile]],
             [dir |-> TRUE, files |-> [f \in Filenames |-> OldFile]]}
  /\ export_result = NoExport
  /\ reloaded = NoCall
  /\ BatchIdle
  /\ RegistryInit /\ AuthIdle
  /\ ApiIdle

\* the schema names that are keys of the dict
DatasetKeys == {datasets[i].schema_name : i \in 1..Len(datasets)}

RECURSIVE DatasetFields(_)
DatasetFields(entries) ==
  IF entries = <<>> THEN 0
  ELSE TotalFields(Head(entries).items) + DatasetFields(Tail(entries))

\* datasets[name] = (records, filename), records being a list or an
\* iterable whose iteration raises
AddDataset(name, filename, kind) ==
  /\ pc = "input"
  /\ Len(datasets) < MaxDatasets
  /\ name \notin DatasetKeys
  /\ datasets' = Append(datasets, [schema_name |-> name, kind |-> kind,
                                   items |-> <<>>, filename |-> filename])
  /\ UNCHANGED <<batch_result, normVars, filterVars, exportVars, effectVars,
               apiVars, authVars>>

DatasetAddRecord ==
  /\ pc = "input"
  /\ Len(datasets) > 0
  /\ Yields(Last(datasets).kind)
  /\ Len(Last(datasets).items) < MaxSourceRecords
  /\ datasets' = [datasets EXCEPT ![Len(datasets)].items = Append(@, <<>>)]
  /\ UNCHANGED <<batch_result, normVars, filterVars, exportVars, effectVars,
               apiVars, authVars>>

DatasetAddField(k, v) ==
  /\ pc = "input"
  /\ Len(datasets) > 0
  /\ Last(datasets).items # <<>>
  /\ DatasetFields(datasets) < MaxSourceFields
  /\ \A i \in 1..Len(Last(Last(datasets).items)) :
       KeyIndex(Last(Last(datasets).items)[i][1]) < KeyIndex(k)
  /\ datasets' =
       [datasets EXCEPT ![Len(datasets)].items =
          [@ EXCEPT ![Len(@)] = Append(@, <<k, v>>)]]
  /\ UNCHANGED <<batch_result, normVars, filterVars, exportVars, effectVars,
               apiVars, authVars>>

\* export_many_to_csv(datasets)
ExportMany(t) ==
  /\ pc = "input"
  /\ LET b == export_many_to_csv(fs, datasets, t)
     IN  /\ fs' = b.fs
         /\ batch_result' = b.out
  /\ today' = DateV(t)
  /\ pc' = "batch_done"
  /\ UNCHANGED <<records, schema_name, result>>
  /\ UNCHANGED <<source, export_result, reloaded>>
  /\ UNCHANGED <<datasets, filterVars, effectVars, apiVars, authVars>>

BatchNext ==
  \/ \E name \in {"projects", "work_packages"} : \E f \in Filenames :
       \E kind \in {"list", "broken"} : AddDataset(name, f, kind)
  \/ DatasetAddRecord
  \/ \E k \in DOMAIN FieldValues : \E v \in FieldValues[k] :
       DatasetAddField(k, v)
  \/ \E t \in Days : ExportMany(t)

BatchSpec == BatchInit /\ [][BatchNext]_vars

\* What a call of normalize_records does to the objects it is given

\* the caller's list emptied by the call, as records.pop() would
records_drained(recs, name) == <<>>

\* the caller's records after normalize_records(records, name): list(records)
\* and DataFrame.from_records read them, no statement assigns into them
records_after_call(recs, name) == recs

\* SCHEMAS after normalize_records(records, name): SCHEMAS[name] is passed
\* to DataFrame(columns=...), iterated and used as an indexer, never changed
registry_after_call(reg, name) == reg

\* State machine: a caller builds a list of records, calls
\* normalize_records on it any number of times, and goes on adding records
\* and keys to the list between and after the calls

EffectInit ==
  NormInit /\ FilterIdle /\ ExportIdle /\ BatchIdle /\ RegistryInit /\ AuthIdle /\ ApiIdle

\* records.append({}) after a call
MutateAppend ==
  /\ pc \in {"returned", "mutated"}
  /\ Len(records) < MaxSourceRecords
  /\ records' = Append(records, <<>>)
  /\ pc' = "mutated"
  /\ UNCHANGED <<schema_name, today, result>>
  /\ UNCHANGED <<filterVars, exportVars, batchVars, effectVars, apiVars, authVars>>

\* records[-1][k] = v after a call
MutateSetKey(k, v) ==
  /\ pc \in {"returned", "mutated"}
  /\ Len(records) > 0
  /\ TotalFields(records) < MaxSourceFields
  /\ \A i \in 1..Len(Last(records)) :
       KeyIndex(Last(records)[i][1]) < KeyIndex(k)
  /\ records' = [records EXCEPT ![Len(records)] = Append(@, <<k, v>>)]
  /\ pc' = "mutated"
  /\ UNCHANGED <<schema_name, today, result>>
  /\ UNCHANGED <<filterVars, exportVars, batchVars, effectVars, apiVars, authVars>>

\* normalize_records(records, schema_name=name), at any time
NormalizeAgain(name, t) ==
  /\ result' = normalize_records(records, name, t)
  /\ records' = records_after_call(records, name)
  /\ registry' = registry_after_call(registry, name)
  /\ schema_name' = name
  /\ today' = DateV(t)
  /\ pc' = "returned"
  /\ UNCHANGED <<filterVars, exportVars, batchVars, apiVars, authVars>>

EffectNext ==
  \/ SourceAddRecord
  \/ \E k \in DOMAIN FieldValues : \E v \in FieldValues[k] :
       SourceAddField(k, v)
  \/ MutateAppend
  \/ \E k \in DOMAIN FieldValues : \E v \in FieldValues[k] :
       MutateSetKey(k, v)
  \/ \E name \in SchemaNames : \E t \in Days : NormalizeAgain(name, t)

EffectSpec == EffectInit /\ [][EffectNext]_vars

----------------------------------------------------------------------------
\* The OpenProject client (backend/app/openproject_api/client.py) and the
\* pipelines that use it (backend/app/orchestration/run_api.py and
\* export_to_powerbi of backend/app/exporters/powerbi.py)

\* the status codes a response may carry
HttpStatuses == {200, 400, 500}

\* the page sizes of the model; they stand for the defaults 100 and 200
PageSizes == {1, 2}

\* status >= 500 only taken as an error
is_server_error(status) == status >= 500

\* _get raises OpenProjectAPIError on status >= 400
is_error(status) == status >= 400

\* the settings are taken as they are, empty or not
config_unchecked(cfg) == FALSE

\* not settings.openproject_base_url or not settings.openproject_api_key
config_missing(cfg) == cfg.base_url = "" \/ cfg.api_key = ""

\* Python's `a or b`
PyOr(a, b) ==
  IF IsNull(a) \/ a = IntV(0) \/ a = <<"emptystr", 0, 0>> THEN b ELSE a

\* what the server holds for its i-th work package
PercentageDone(i) == IF i = 1 THEN IntV(0) ELSE IntV(50)
DueDate(i) == IF i = 1 THEN <<"datestr", 1, 0>> ELSE Null

\* the dict list_projects appends for the i-th project of the server
project_record(i) ==
  <<<<"project_id", IntV(i)>>,
    <<"project_name", Str(i)>>,
    <<"project_status", PyOr(Null, <<"emptystr", 0, 0>>)>>,
    <<"project_href", Str(i)>>,
    <<"updated_at", PyOr(DtStr(1, 30), Null)>>>>

\* the dict list_work_packages appends for the i-th work package
work_package_record(i) ==
  <<<<"wp_id", IntV(i)>>,
    <<"wp_subject", Str(i)>>,
    <<"wp_type", PyOr(Str(3), <<"emptystr", 0, 0>>)>>,
    <<"wp_status", PyOr(Str(3), <<"emptystr", 0, 0>>)>>,
    <<"wp_priority", PyOr(Str(5), <<"emptystr", 0, 0>>)>>,
    <<"project_id", IntV(1)>>,
    <<"project_name", PyOr(Str(1), <<"emptystr", 0, 0>>)>>,
    <<"assignee", PyOr(Null, <<"emptystr", 0, 0>>)>>,
    <<"author", PyOr(Str(4), <<"emptystr", 0, 0>>)>>,
    <<"start_date", PyOr(<<"datestr", 1, 0>>, Null)>>,
    <<"due_date", PyOr(DueDate(i), Null)>>,
    <<"done_ratio", PyOr(PercentageDone(i), Null)>>,
    <<"created_at", PyOr(DtStr(1, 30), Null)>>,
    <<"updated_at", PyOr(DtStr(1, 30), Null)>>>>

element_record(resource, i) ==
  IF resource = "projects" THEN project_record(i) ELSE work_package_record(i)

Min(a, b) == IF a < b THEN a ELSE b

\* the indexes of the elements on page k of a list of n elements
page_elements(n, size, k) ==
  [j \in 1..(IF (k - 1) * size < n THEN Min(k * size, n) - (k - 1) * size
             ELSE 0) |-> (k - 1) * size + j]

\* params["filters"] of list_work_packages
filters_param(arg) == IF arg # None /\ arg # "" THEN arg ELSE "[]"

\* the values of OPENPROJECT_WORK_PACKAGES_FILTERS_JSON
FilterSettings == {"", "[status]"}

\* the values of the filters_json argument of a direct call
FilterArguments == {None, "", "[status]"}

\* the setting handed to list_work_packages when it is not empty
configured_filters(setting) == IF setting = "" THEN None ELSE setting

\* filters_json = None of run_api, filters_json=None of export_to_powerbi
pipeline_filters(setting) == None

\* the loop left one page early: offset < total
loop_stops_early(l) == ~l.total_known \/ l.offset < l.total

\* the loop taking one more turn: (offset - 1) <= total
loop_runs_over(l) == ~l.total_known \/ (l.offset - 1) <= l.total

\* while total is None or (offset - 1) < total
loop_continues(l) == ~l.total_known \/ (l.offset - 1) < l.total

\* State machine: one run of run_api or of export_to_powerbi against a
\* server that answers each page request with the page or with an error

Pipelines == {"run_api", "export_to_powerbi"}

StartLoop == [offset |-> 1, total_known |-> FALSE, total |-> 0, out |-> <<>>]

ApiInit ==
  /\ NormInit
  /\ FilterIdle
  /\ source = "list"
  /\ fs \in {[dir |-> FALSE, files |-> [f \in Filenames |-> NoFile]],
             [dir |-> TRUE, files |-> [f \in Filenames |-> OldFile]]}
  /\ export_result = NoExport
  /\ reloaded = NoCall
  /\ BatchIdle
  /\ RegistryInit /\ AuthIdle
  /\ config \in [base_url : {"", "https://openproject"},
                 api_key : {"", "key"}]
  /\ entry \in Pipelines
  /\ page_size \in PageSizes
  /\ server \in [projects : 0..MaxElements, work_packages : 0..MaxElements]
  /\ api_pc = "start"
  /\ loop = NoLoop
  /\ collected = NoLists
  /\ requests = <<>>
  /\ api_result = NoApiResult
  /\ filters_setting \in FilterSettings
  /\ filters_json = None

\* the checks of the settings at the head of run_api and export_to_powerbi,
\* then the construction of the client and the choice of filters_json
ValidateConfig ==
  /\ api_pc = "start"
  /\ IF config_missing(config)
       THEN /\ api_pc' = "failed"
            /\ api_result' = [NoApiResult EXCEPT !.status = "raised",
                                                 !.error = "RuntimeError"]
            /\ UNCHANGED <<loop, filters_json>>
       ELSE /\ api_pc' = "projects"
            /\ loop' = StartLoop
            /\ filters_json' = pipeline_filters(filters_setting)
            /\ UNCHANGED api_result
  /\ UNCHANGED <<config, entry, page_size, server, collected, requests,
                 filters_setting>>
  /\ UNCHANGED <<normVars, filterVars, exportVars, batchVars, effectVars, authVars>>

\* one turn of the while loop of list_projects or list_work_packages: the
\* GET of page loop.offset, answered with `status`; an error status raises
\* OpenProjectAPIError, which run_api and export_to_powerbi raise again;
\* otherwise the elements are appended to out and the method returns out
\* when count <= 0 or the loop condition fails
RequestPage(status) ==
  /\ entry \in Pipelines
  /\ api_pc \in {"projects", "work_packages"}
  /\ LET elements == page_elements(server[api_pc], page_size, loop.offset)
         count == Len(elements)
         out == loop.out \o
                [j \in 1..count |-> element_record(api_pc, elements[j])]
         after == [offset |-> loop.offset + 1, total_known |-> TRUE,
                   total |-> server[api_pc], out |-> out]
     IN  /\ requests' = Append(requests,
                          [resource |-> api_pc,
                           offset |-> loop.offset,
                           filters |-> IF api_pc = "work_packages"
                                         THEN filters_param(filters_json)
                                         ELSE None,
                           status |-> status,
                           total |-> IF is_error(status) THEN 0
                                     ELSE server[api_pc],
                           count |-> IF is_error(status) THEN 0
                                     ELSE count])
         /\ IF is_error(status)
              THEN /\ api_pc' = "failed"
                   /\ api_result' =
                        [NoApiResult EXCEPT !.status = "raised",
                                            !.error = "OpenProjectAPIError"]
                   /\ loop' = NoLoop
                   /\ UNCHANGED collected
              ELSE IF count <= 0 \/ ~loop_continues(after)
                THEN /\ collected' =
                          [collected EXCEPT ![api_pc] =
                             [returned |-> TRUE, items |-> out]]
                     /\ api_pc' = IF api_pc = "projects"
                                    THEN "work_packages" ELSE "export"
                     /\ loop' = IF api_pc = "projects"
                                  THEN StartLoop ELSE NoLoop
                     /\ UNCHANGED api_result
                ELSE /\ loop' = after
                     /\ UNCHANGED <<api_pc, collected, api_result>>
  /\ UNCHANGED <<config, entry, page_size, server, filters_setting,
                 filters_json>>
  /\ UNCHANGED <<normVars, filterVars, exportVars, batchVars, effectVars, authVars>>

\* the datasets run_api gives to export_many_to_csv
run_api_datasets(lists) ==
  <<[schema_name |-> "projects", kind |-> "list",
     items |-> lists.projects.items, filename |-> "projects.csv"],
    [schema_name |-> "work_packages", kind |-> "list",
     items |-> lists.work_packages.items,
     filename |-> "work_packages.csv"]>>

\* the end of run_api: export_many_to_csv on the two lists
ExportCsv(t) ==
  /\ api_pc = "export"
  /\ entry = "run_api"
  /\ datasets' = run_api_datasets(collected)
  /\ LET b == export_many_to_csv(fs, datasets', t)
     IN  /\ fs' = b.fs
         /\ batch_result' = b.out
         /\ api_result' = [NoApiResult EXCEPT !.status = b.out.status,
                                              !.error = b.out.error]
         /\ api_pc' = IF b.out.status = "ok" THEN "done" ELSE "failed"
  /\ today' = DateV(t)
  /\ UNCHANGED <<records, schema_name, result, pc>>
  /\ UNCHANGED <<source, export_result, reloaded>>
  /\ UNCHANGED <<config, entry, page_size, server, loop, collected, requests,
                 filters_setting, filters_json>>
  /\ UNCHANGED <<filterVars, effectVars, authVars>>

\* the end of export_to_powerbi: the two lists normalized and returned
ReturnFrames(t) ==
  /\ api_pc = "export"
  /\ entry = "export_to_powerbi"
  /\ LET projects_df == normalize_records(collected.projects.items,
                                          "projects", t)
         work_packages_df == normalize_records(collected.work_packages.items,
                                               "work_packages", t)
     IN  IF projects_df.status = "raised"
           THEN /\ api_result' = [NoApiResult EXCEPT
                                    !.status = "raised",
                                    !.error = projects_df.error]
                /\ api_pc' = "failed"
         ELSE IF work_packages_df.status = "raised"
           THEN /\ api_result' = [NoApiResult EXCEPT
                                    !.status = "raised",
                                    !.error = work_packages_df.error]
                /\ api_pc' = "failed"
         ELSE /\ api_result' = [status |-> "ok", error |-> "",
                                frames |-> <<Frame(projects_df),
                                             Frame(work_packages_df)>>]
              /\ api_pc' = "done"
  /\ today' = DateV(t)
  /\ UNCHANGED <<records, schema_name, result, pc>>
  /\ UNCHANGED <<config, entry, page_size, server, loop, collected, requests,
                 filters_setting, filters_json>>
  /\ UNCHANGED <<filterVars, exportVars, batchVars, effectVars, authVars>>

ApiNext ==
  \/ ValidateConfig
  \/ \E status \in HttpStatuses : RequestPage(status)
  \/ \E t \in Days : ExportCsv(t)
  \/ \E t \in Days : ReturnFrames(t)

ApiSpec == ApiInit /\ [][ApiNext]_vars

\* State machine: list_projects or list_work_packages called on a client,
\* or one of the two pipelines, against a server that answers each page
\* request of a direct call with any total, any count and any elements

\* the largest total and the largest count a response reports
MaxTotal == 2
MaxCount == 1

DirectCalls == {"list_projects", "list_work_packages"}

ResourceOf(method) ==
  IF method = "list_projects" THEN "projects" ELSE "work_packages"

ClientInit ==
  /\ NormInit
  /\ FilterIdle
  /\ source = "list"
  /\ fs \in {[dir |-> FALSE, files |-> [f \in Filenames |-> NoFile]],
             [dir |-> TRUE, files |-> [f \in Filenames |-> OldFile]]}
  /\ export_result = NoExport
  /\ reloaded = NoCall
  /\ BatchIdle
  /\ RegistryInit /\ AuthIdle
  /\ entry \in Pipelines \cup DirectCalls
  /\ page_size \in PageSizes
  /\ collected = NoLists
  /\ requests = <<>>
  /\ api_result = NoApiResult
  /\ filters_setting \in FilterSettings
  /\ IF entry \in Pipelines
       THEN /\ config \in [base_url : {"", "https://openproject"},
                           api_key : {"", "key"}]
            /\ server \in [projects : 0..MaxElements,
                           work_packages : 0..MaxElements]
            /\ api_pc = "start"
            /\ loop = NoLoop
            /\ filters_json = None
       ELSE /\ config = [base_url |-> "https://openproject",
                         api_key |-> "key"]
            /\ server = [projects |-> 0, work_packages |-> 0]
            /\ api_pc = ResourceOf(entry)
            /\ loop = StartLoop
            /\ filters_json \in IF entry = "list_work_packages"
                                  THEN FilterArguments ELSE {None}

\* one turn of the while loop of a direct call: the GET of page
\* loop.offset, answered with `status` and, on success, a payload of total
\* `total`, count `count` and `n` elements
AnswerPage(status, total, count, n) ==
  /\ entry \in DirectCalls
  /\ api_pc \in {"projects", "work_packages"}
  /\ is_error(status) => total = 0 /\ count = 0 /\ n = 0
  /\ LET out == loop.out \o
                [j \in 1..n |-> element_record(api_pc, Len(loop.out) + j)]
         after == [offset |-> loop.offset + 1, total_known |-> TRUE,
                   total |-> total, out |-> out]
     IN  /\ requests' = Append(requests,
                          [resource |-> api_pc,
                           offset |-> loop.offset,
                           filters |-> IF api_pc = "work_packages"
                                         THEN filters_param(filters_json)
                                         ELSE None,
                           status |-> status,
                           total |-> total,
                           count |-> count])
         /\ IF is_error(status)
              THEN /\ api_pc' = "failed"
                   /\ api_result' =
                        [NoApiResult EXCEPT !.status = "raised",
                                            !.error = "OpenProjectAPIError"]
                   /\ loop' = NoLoop
                   /\ UNCHANGED collected
              ELSE IF count <= 0 \/ ~loop_continues(after)
                THEN /\ collected' =
                          [collected EXCEPT ![api_pc] =
                             [returned |-> TRUE, items |-> out]]
                     /\ api_pc' = "done"
                     /\ loop' = NoLoop
                     /\ api_result' = [NoApiResult EXCEPT !.status = "ok"]
                ELSE /\ loop' = after
                     /\ UNCHANGED <<api_pc, collected, api_result>>
  /\ UNCHANGED <<config, entry, page_size, server, filters_setting,
                 filters_json>>
  /\ UNCHANGED <<normVars, filterVars, exportVars, batchVars, effectVars, authVars>>

ClientNext ==
  \/ ValidateConfig
  \/ \E status \in HttpStatuses : RequestPage(status)
  \/ \E status \in HttpStatuses : \E total \in 0..MaxTotal :
       \E count \in -1..MaxCount : \E n \in 0..MaxElements - 1 :
         AnswerPage(status, total, count, n)
  \/ \E t \in Days : ExportCsv(t)
  \/ \E t \in Days : ReturnFrames(t)

ClientSpec == ClientInit /\ [][ClientNext]_vars

----------------------------------------------------------------------------
\* The dashboard's authentication (backend/app/dashboard/app.py): the table
\* dashboard_users, the session state, and one run of the script per widget
\* event.  A string is the sequence of its characters.

\* the shortest username and the shortest password _create_user accepts
MinUsernameLength == 3
MinPasswordLength == 6

\* the most rows the table holds
MaxUsers == 2

IsSpace(c) == c = " "

\* the string kept as typed
unstripped(s) == s

RECURSIVE lstrip(_)
lstrip(s) == IF s # <<>> /\ IsSpace(Head(s)) THEN lstrip(Tail(s)) ELSE s

RECURSIVE rstrip(_)
rstrip(s) ==
  IF s # <<>> /\ IsSpace(s[Len(s)])
    THEN rstrip(SubSeq(s, 1, Len(s) - 1)) ELSE s

\* str.strip()
strip(s) == rstrip(lstrip(s))

CodePoint(c) ==
  CASE c = " " -> 32
    [] c = "1" -> 49 [] c = "2" -> 50 [] c = "3" -> 51
    [] c = "4" -> 52 [] c = "5" -> 53 [] c = "6" -> 54
    [] c = "a" -> 97 [] c = "b" -> 98 [] c = "c" -> 99
    [] c = "d" -> 100 [] c = "e" -> 101
    [] OTHER -> 63

RECURSIVE CodeSum(_)
CodeSum(s) == IF s = <<>> THEN 0 ELSE CodePoint(Head(s)) + CodeSum(Tail(s))

\* _hash_password: a digest of fixed width computed from the password and
\* the salt alone; as with PBKDF2, two passwords may share a digest
hash_password(password, salt) == (CodeSum(password) + 31 * salt) % 256

\* the table taken as holding a user already
count_users_nonzero(store) == Len(store) + 1

\* _count_users
count_users(store) == Len(store)

\* the rows a SELECT ... WHERE username = ? finds
rows_of(store, username) ==
  {i \in 1..Len(store) : store[i].username = username}

\* _create_user; salt is the value secrets.token_hex gave.  The INSERT
\* fails with IntegrityError when the username is in the table (UNIQUE).
create_user(store, username, password, is_admin, salt) ==
  LET username_clean == strip(username)
  IN  IF Len(username_clean) < MinUsernameLength
        THEN [users |-> store, ok |-> FALSE,
              message |-> "Usuario deve ter ao menos 3 caracteres."]
      ELSE IF Len(password) < MinPasswordLength
        THEN [users |-> store, ok |-> FALSE,
              message |-> "Senha deve ter ao menos 6 caracteres."]
      ELSE IF rows_of(store, username_clean) # {}
        THEN [users |-> store, ok |-> FALSE,
              message |-> "Usuario ja existe."]
      ELSE [users |-> Append(store,
                        [id |-> Len(store) + 1,
                         username |-> username_clean,
                         password_hash |-> hash_password(password, salt),
                         password_salt |-> salt,
                         is_admin |-> IF is_admin THEN 1 ELSE 0,
                         is_active |-> 1]),
            ok |-> TRUE,
            message |-> "Usuario criado com sucesso."]

\* the user of the username, whatever the password
authenticate_without_password(store, username, password) ==
  LET found == rows_of(store, strip(username))
  IN  IF found = {} THEN NoUser
      ELSE LET row == store[CHOOSE i \in found : TRUE]
           IN  [found |-> TRUE, id |-> row.id, username |-> row.username,
                is_admin |-> row.is_admin # 0]

\* _authenticate_user
authenticate_user(store, username, password) ==
  LET found == rows_of(store, strip(username))
  IN  IF found = {} THEN NoUser
      ELSE LET row == store[CHOOSE i \in found : TRUE]
           IN  IF row.is_active # 1 THEN NoUser
               ELSE IF hash_password(password, row.password_salt)
                         # row.password_hash
                 THEN NoUser
               ELSE [found |-> TRUE, id |-> row.id,
                     username |-> row.username,
                     is_admin |-> row.is_admin # 0]

\* _is_authenticated
is_authenticated(sess) ==
  "is_authenticated" \in sess.keys /\ sess.is_authenticated

SessionKeys ==
  {"is_authenticated", "authenticated_user_id", "authenticated_username",
   "authenticated_is_admin"}

\* the four assignments after a successful login
logged_in(sess, user) ==
  [keys |-> sess.keys \cup SessionKeys,
   is_authenticated |-> TRUE,
   authenticated_user_id |-> user.id,
   authenticated_username |-> user.username,
   authenticated_is_admin |-> user.is_admin]

\* is_authenticated set to False, the user left in the session
logged_out_keeps_user(sess) ==
  [sess EXCEPT !.keys = sess.keys \cup SessionKeys,
               !.is_authenticated = FALSE]

\* the four assignments of the button "Sair"
logged_out(sess) ==
  [keys |-> sess.keys \cup SessionKeys,
   is_authenticated |-> FALSE,
   authenticated_user_id |-> 0,
   authenticated_username |-> <<>>,
   authenticated_is_admin |-> FALSE]

\* what a run starts from
StartRun(sess, ev) ==
  [NoRun EXCEPT !.event = ev,
                !.authenticated_at_start = is_authenticated(sess)]

\* _require_dashboard_authentication: passed is TRUE when it returns, FALSE
\* when the run ends in it (st.stop or st.rerun)
require_dashboard_authentication(store, sess, ev) ==
  LET r0 == StartRun(sess, ev)
  IN  IF is_authenticated(sess)
        THEN [users |-> store, session |-> sess, run |-> r0,
              passed |-> TRUE]
      ELSE IF count_users(store) = 0
        THEN LET r1 == [r0 EXCEPT !.shown = "bootstrap_form"]
             IN  IF ev.kind # "bootstrap" \/ ev.password # ev.confirm
                   THEN [users |-> store, session |-> sess, run |-> r1,
                         passed |-> FALSE]
                 ELSE LET c == create_user(store, ev.username, ev.password,
                                           TRUE, ev.salt)
                      IN  [users |-> c.users, session |-> sess,
                           run |-> [r1 EXCEPT
                                      !.create = [called |-> TRUE,
                                                  ok |-> c.ok,
                                                  message |-> c.message],
                                      !.rerun = c.ok],
                           passed |-> FALSE]
      ELSE LET r1 == [r0 EXCEPT !.shown = "login_form"]
           IN  IF ev.kind # "login"
                 THEN [users |-> store, session |-> sess, run |-> r1,
                       passed |-> FALSE]
               ELSE LET user == authenticate_user(store, ev.username,
                                                  ev.password)
                        r2 == [r1 EXCEPT
                                 !.authenticate = [called |-> TRUE,
                                                   user |-> user]]
                    IN  IF user.found
                          THEN [users |-> store,
                                session |-> logged_in(sess, user),
                                run |-> [r2 EXCEPT !.rerun = TRUE],
                                passed |-> FALSE]
                          ELSE [users |-> store, session |-> sess,
                                run |-> r2, passed |-> FALSE]

\* main: the gate, then the sidebar (the button "Sair", the form of the
\* administrators), then the loading, filtering and rendering of the data
main(store, sess, ev) ==
  LET gate == require_dashboard_authentication(store, sess, ev)
      r1 == [gate.run EXCEPT !.shown = "dashboard"]
  IN  IF ~gate.passed
        THEN [users |-> gate.users, session |-> gate.session,
              run |-> gate.run]
      ELSE IF ev.kind = "sair"
        THEN [users |-> store, session |-> logged_out(sess),
              run |-> [r1 EXCEPT !.rerun = TRUE]]
      ELSE IF "authenticated_is_admin" \in sess.keys
              /\ sess.authenticated_is_admin
        THEN LET r2 == [r1 EXCEPT !.create_user_form = TRUE,
                                  !.reached_data = TRUE]
             IN  IF ev.kind # "create_user"
                   THEN [users |-> store, session |-> sess, run |-> r2]
                 ELSE LET c == create_user(store, ev.username, ev.password,
                                           ev.is_admin, ev.salt)
                      IN  [users |-> c.users, session |-> sess,
                           run |-> [r2 EXCEPT
                                      !.create = [called |-> TRUE,
                                                  ok |-> c.ok,
                                                  message |-> c.message]]]
      ELSE [users |-> store, session |-> sess,
            run |-> [r1 EXCEPT !.reached_data = TRUE]]

\* State machine: one browser session of the dashboard; every action is one
\* run of the script, started by a widget the run before has drawn

Usernames ==
  {<<"a", "b", " ">>, <<"a", "b", "c">>, <<" ", "a", "b", "c">>,
   <<"a", "b", "d">>}

Passwords ==
  {<<"1", "2", "3", "4", "5">>, <<"1", "2", "3", "4", "5", "6">>,
   <<"6", "5", "4", "3", "2", "1">>}

Salts == {1, 2}

\* a user the operator of the database has deactivated
InactiveUser ==
  [id |-> 1, username |-> <<"a", "b", "d">>,
   password_hash |-> hash_password(<<"1", "2", "3", "4", "5", "6">>, 1),
   password_salt |-> 1, is_admin |-> 1, is_active |-> 0]

AuthInit ==
  /\ NormInit
  /\ FilterIdle
  /\ ExportIdle
  /\ BatchIdle
  /\ RegistryInit
  /\ ApiIdle
  /\ users \in {<<>>, <<InactiveUser>>}
  /\ session = NoSession
  /\ run = NoRun

\* one run of the script on the event ev
Run(ev) ==
  /\ LET r == main(users, session, ev)
     IN  /\ users' = r.users
         /\ session' = r.session
         /\ run' = r.run
  /\ UNCHANGED <<normVars, filterVars, exportVars, batchVars, effectVars,
                 apiVars>>

\* the page opened, or a widget other than the ones below changed
Interact ==
  /\ ~run.rerun
  /\ Run(NoEvent)

\* the run st.rerun() starts
Rerun ==
  /\ run.rerun
  /\ Run(NoEvent)

\* the form bootstrap_admin_form submitted
SubmitBootstrap(username, password, confirm, salt) ==
  /\ ~run.rerun
  /\ run.shown = "bootstrap_form"
  /\ Run([NoEvent EXCEPT !.kind = "bootstrap", !.username = username,
                         !.password = password, !.confirm = confirm,
                         !.salt = salt])

\* the form login_form submitted
SubmitLogin(username, password) ==
  /\ ~run.rerun
  /\ run.shown = "login_form"
  /\ Run([NoEvent EXCEPT !.kind = "login", !.username = username,
                         !.password = password])

\* the button "Sair" pressed
PressSair ==
  /\ ~run.rerun
  /\ run.shown = "dashboard"
  /\ Run([NoEvent EXCEPT !.kind = "sair"])

\* the form create_user_form submitted
SubmitCreateUser(username, password, is_admin, salt) ==
  /\ ~run.rerun
  /\ run.create_user_form
  /\ Len(users) < MaxUsers
  /\ Run([NoEvent EXCEPT !.kind = "create_user", !.username = username,
                         !.password = password, !.is_admin = is_admin,
                         !.salt = salt])

AuthNext ==
  \/ Interact
  \/ Rerun
  \/ \E username \in Usernames : \E password \in Passwords :
       \E confirm \in Passwords : \E salt \in Salts :
         SubmitBootstrap(username, password, confirm, salt)
  \/ \E username \in Usernames : \E password \in Passwords :
       SubmitLogin(username, password)
  \/ PressSair
  \/ \E username \in Usernames : \E password \in Passwords :
       \E is_admin \in BOOLEAN : \E salt \in Salts :
         SubmitCreateUser(username, password, is_admin, salt)

AuthSpec == AuthInit /\ [][AuthNext]_vars

----------------------------------------------------------------------------
\* Properties of normalize_records

Returned == pc = "returned"
ReturnedOk == Returned /\ result.status = "ok"

\* the keys of the call's records
KeysSeen == UNION {Range(Keys(records[i])) : i \in 1..Len(records)}

\* what record i carries under key c, None when it lacks the key
RawOrNull(i, c) ==
  IF HasKey(records[i], c) THEN Get(records[i], c) ELSE Null

NoDuplicates(s) == \A i, j \in 1..Len(s) : s[i] = s[j] => i = j

DateColumns == {"start_date", "due_date"}
TimestampColumns == {"created_at", "updated_at"}
IntColumns == {"wp_id", "project_id", "done_ratio"}

\* a source value read as an integer: an integer, or a decimal-digit string
IntParseable(v) == v[1] \in {"int", "numstr"}

\* a source value read as a date or a timestamp
DateParseable(v) == v[1] = "dtstr"

\* the cell a schema column holds for a source value v: typed columns hold
\* the parsed value or null, the other columns hold v
ExpectedCell(name, c, v) ==
  IF name = "work_packages" /\ c \in DateColumns
    THEN IF DateParseable(v) THEN DateV(v[2]) ELSE Null
  ELSE IF c = "updated_at" \/ (name = "work_packages" /\ c = "created_at")
    THEN IF DateParseable(v) THEN TsV(v[2], v[3]) ELSE Null
  ELSE IF name = "work_packages" /\ c \in IntColumns
    THEN IF IntParseable(v) THEN IntV(v[2]) ELSE Null
  ELSE v

\* C1: for a registered schema name and any records, the call returns a
\* dataset whose column list is the registry's list for that name, in order.
C1_SchemaCompleteness ==
  Returned /\ Registered(schema_name) =>
    result.status = "ok" /\ result.columns = SCHEMAS[schema_name]

\* C2: no call raises because of a field value: a value of a typed column
\* that cannot be parsed as the declared type is null in its row and the
\* dataset is produced.
C2_NullSafety ==
  Returned /\ Registered(schema_name) =>
    /\ result.error # "TypeError"
    /\ result.status = "ok" =>
         \A i \in 1..Len(result.rows) :
           \A c \in Range(SCHEMAS[schema_name]) \ {"is_late"} :
             /\ HasKey(records[i], c)
             /\ ExpectedCell(schema_name, c, Get(records[i], c)) = Null
             => result.rows[i][c] = Null

\* C3: in a work_packages dataset every row's is_late is true exactly when
\* the row's due_date is not null and before today and its done_ratio
\* (0 when null) is below 100, and false otherwise, whatever is_late the
\* record carried.
C3_LatenessDerivation ==
  ReturnedOk /\ schema_name = "work_packages" =>
    \A i \in 1..Len(result.rows) :
      LET row == result.rows[i]
          due == row["due_date"]
          done == row["done_ratio"]
      IN  row["is_late"] =
            BoolV(/\ ~IsNull(due)
                  /\ due[2] < today[2]
                  /\ (IF IsNull(done) THEN 0 ELSE done[2]) < 100)

\* C4: in a work_packages dataset of a non-empty record list, every row
\* whose record has no usable due_date (absent, null or unparsable) has
\* is_late = false, also when no record has a due_date key.
C4_NoDueDateIsNotLate ==
  ReturnedOk /\ schema_name = "work_packages" /\ records # <<>> =>
    \A i \in 1..Len(result.rows) :
      ~DateParseable(RawOrNull(i, "due_date")) =>
        result.rows[i]["is_late"] = BoolV(FALSE)

\* C5: a work_packages call on records of which one (or every one) omits
\* done_ratio while its due_date is a date before today succeeds, and that
\* row has a null done_ratio and is_late = true.
C5_MissingDoneRatioIsZero ==
  Returned /\ schema_name = "work_packages" =>
    \A i \in 1..Len(records) :
      /\ ~HasKey(records[i], "done_ratio")
      /\ DateParseable(RawOrNull(i, "due_date"))
      /\ RawOrNull(i, "due_date")[2] < today[2]
      => /\ result.status = "ok"
         /\ result.rows[i]["done_ratio"] = Null
         /\ result.rows[i]["is_late"] = BoolV(TRUE)

\* C6: a call on no records under a registered schema name returns a dataset
\* of zero rows whose columns are the schema's, in order: 5 for projects,
\* 15 for work_packages, is_late among them.
C6_EmptyInput ==
  Returned /\ records = <<>> /\ Registered(schema_name) =>
    /\ result.status = "ok"
    /\ result.rows = <<>>
    /\ result.columns = SCHEMAS[schema_name]
    /\ schema_name = "projects" => Len(result.columns) = 5
    /\ schema_name = "work_packages" =>
         Len(result.columns) = 15 /\ InSeq(result.columns, "is_late")

C6_Witness ==
  /\ ReturnedOk
  /\ records = <<>>
  /\ schema_name = "work_packages"
  /\ Len(result.columns) = 15

\* C7: under an absent or unregistered schema name the call succeeds, the
\* columns are the keys seen in the records (none and no rows for no
\* records), every value is the record's own and no is_late column is added.
C7_NoSchemaNoRules ==
  Returned /\ ~Registered(schema_name) =>
    /\ result.status = "ok"
    /\ Range(result.columns) = KeysSeen
    /\ NoDuplicates(result.columns)
    /\ records = <<>> => result.columns = <<>> /\ result.rows = <<>>
    /\ \A i \in 1..Len(result.rows) :
         \A c \in KeysSeen : result.rows[i][c] = RawOrNull(i, c)

C7_Witness ==
  /\ ReturnedOk
  /\ schema_name = "unknown_schema"
  /\ Len(records) = 2
  /\ HasKey(records[1], "due_date")
  /\ HasKey(records[1], "done_ratio")
  /\ ~HasKey(records[2], "due_date")
  /\ result.columns = <<"due_date", "done_ratio">>
  /\ result.rows[1]["due_date"][1] = "dtstr"
  /\ result.rows[2]["due_date"] = Null

\* C8, as the specification states it: under a registered schema every
\* schema column no record has is null in every row, every key outside the
\* schema is absent, and a schema column a record has keeps that record's
\* (coerced) value.
C8_ColumnEnforcementAllColumns ==
  ReturnedOk /\ Registered(schema_name) =>
    /\ Range(result.columns) \cap KeysSeen \subseteq Range(SCHEMAS[schema_name])
    /\ \A i \in 1..Len(result.rows) :
         \A c \in Range(SCHEMAS[schema_name]) :
           result.rows[i][c] =
             IF c \in KeysSeen
             THEN ExpectedCell(schema_name, c, RawOrNull(i, c))
             ELSE Null

\* the is_late column is derived: the frame of a work_packages call has a
\* due_date column
IsLateDerived ==
  schema_name = "work_packages" /\ "due_date" \in KeysSeen

\* C8, amended: the same of every schema column but a derived is_late, which
\* is a boolean in every row whatever the records carried.
C8_ColumnEnforcement ==
  ReturnedOk /\ Registered(schema_name) =>
    /\ Range(result.columns) \subseteq Range(SCHEMAS[schema_name])
    /\ \A i \in 1..Len(result.rows) :
         \A c \in Range(SCHEMAS[schema_name]) :
           IF c = "is_late" /\ IsLateDerived
           THEN result.rows[i][c][1] = "bool"
           ELSE result.rows[i][c] =
                  IF c \in KeysSeen
                  THEN ExpectedCell(schema_name, c, RawOrNull(i, c))
                  ELSE Null

C8_Witness ==
  /\ ReturnedOk
  /\ schema_name = "projects"
  /\ Len(result.rows) = 2
  /\ HasKey(records[1], "project_id")
  /\ HasKey(records[1], "due_date")
  /\ ~HasKey(records[2], "project_id")
  /\ result.rows[1]["project_id"] = NumStr(42)
  /\ result.rows[2]["project_id"] = Null
  /\ result.rows[1]["project_href"] = Null
  /\ ~InSeq(result.columns, "due_date")

\* C9: in a work_packages dataset wp_id, project_id and done_ratio are an
\* integer or null in every row: an int-parseable source value yields that
\* integer and any other source value yields null.
C9_IntegerTyping ==
  Returned /\ schema_name = "work_packages" =>
    \A i \in 1..Len(records) :
      \A c \in IntColumns :
        HasKey(records[i], c) =>
          /\ result.status = "ok"
          /\ result.rows[i][c] =
               IF IntParseable(Get(records[i], c))
               THEN IntV(Get(records[i], c)[2])
               ELSE Null

\* C10: in every row of a work_packages dataset start_date and due_date are
\* a date, the source's time of day dropped, or null, and created_at and
\* updated_at are the source's full timestamp or null; in a projects dataset
\* updated_at is the timestamp and every other column is the source value.
C10_DateAndTimestampTyping ==
  ReturnedOk /\ Registered(schema_name) =>
    \A i \in 1..Len(result.rows) :
      LET row == result.rows[i] IN
      /\ schema_name = "work_packages" =>
           /\ \A c \in DateColumns :
                /\ row[c][1] \in {"date", "null"}
                /\ DateParseable(RawOrNull(i, c)) =>
                     row[c] = DateV(RawOrNull(i, c)[2])
           /\ \A c \in TimestampColumns :
                /\ row[c][1] \in {"ts", "null"}
                /\ DateParseable(RawOrNull(i, c)) =>
                     row[c] = TsV(RawOrNull(i, c)[2], RawOrNull(i, c)[3])
      /\ schema_name = "projects" =>
           /\ row["updated_at"][1] \in {"ts", "null"}
           /\ DateParseable(RawOrNull(i, "updated_at")) =>
                row["updated_at"] =
                  TsV(RawOrNull(i, "updated_at")[2],
                      RawOrNull(i, "updated_at")[3])
           /\ \A c \in Range(SCHEMAS["projects"]) \ {"updated_at"} :
                row[c] = RawOrNull(i, c)

C10_Witness ==
  /\ ReturnedOk
  /\ schema_name = "work_packages"
  /\ Len(result.rows) = 1
  /\ RawOrNull(1, "due_date") = DtStr(2, 30)
  /\ result.rows[1]["due_date"] = DateV(2)
  /\ RawOrNull(1, "created_at") = DtStr(1, 30)
  /\ result.rows[1]["created_at"] = TsV(1, 30)

----------------------------------------------------------------------------
\* Properties of _apply_filters

Filtered == fpc = "filtered"

\* row r passes the three filters
Matches(r, sel) ==
  /\ sel[1] = {} \/ r["project_name"] \in sel[1]
  /\ sel[2] = {} \/ r["wp_status"] \in sel[2]
  /\ sel[3] = {} \/ r["wp_priority"] \in sel[3]

\* the rows of a sequence that pass the three filters, in order
RECURSIVE Matching(_, _)
Matching(rows, sel) ==
  IF rows = <<>> THEN <<>>
  ELSE IF Matches(Head(rows), sel)
       THEN <<Head(rows)>> \o Matching(Tail(rows), sel)
       ELSE Matching(Tail(rows), sel)

\* C11: the work_packages of the returned bundle are exactly the input rows
\* r with (project filter empty or r.project_name in it) and (status filter
\* empty or r.wp_status in it) and (priority filter empty or r.wp_priority
\* in it); status filter {"Closed"} with no priority filter gives exactly
\* the rows whose status is "Closed".
C11_FilterSemantics ==
  Filtered =>
    LET input == heap[bundle.work_packages]
        output == heap[filtered.work_packages]
    IN  /\ output.columns = input.columns
        /\ output.rows = Matching(input.rows, selection)
        /\ selection = <<{}, {Closed}, {}>> =>
             /\ \A i \in 1..Len(output.rows) :
                  output.rows[i]["wp_status"] = Closed
             /\ Len(output.rows) =
                  Cardinality({i \in 1..Len(input.rows) :
                                 input.rows[i]["wp_status"] = Closed})

C11_Witness ==
  /\ Filtered
  /\ selection = <<{}, {Closed}, {}>>
  /\ Len(heap[bundle.work_packages].rows) = 3
  /\ Len(heap[filtered.work_packages].rows) = 2
  /\ heap[filtered.work_packages].rows[2]["wp_id"] = IntV(3)

\* C12: _apply_filters leaves the two frames of the input bundle as they
\* were, returns a bundle with a work_packages frame of its own, and the
\* projects of the returned bundle are the input's.
C12_FilterDoesNotMutate ==
  [][fpc = "loading" /\ fpc' = "filtered" =>
       /\ bundle' = bundle
       /\ heap'[bundle.projects] = heap[bundle.projects]
       /\ heap'[bundle.work_packages] = heap[bundle.work_packages]
       /\ filtered'.work_packages # bundle.work_packages
       /\ heap'[filtered'.projects] = heap[bundle.projects]]_vars

C12_Witness ==
  /\ Filtered
  /\ selection[1] = {Str(1)}
  /\ Len(heap[bundle.work_packages].rows) = 3
  /\ Len(heap[filtered.work_packages].rows) = 1
  /\ Len(heap[bundle.projects].rows) = 1
  /\ filtered.projects = bundle.projects


----------------------------------------------------------------------------
\* Properties of the CSV exporter

ExportedOk == pc = "exported" /\ export_result.status = "ok"

\* the file holds the serialization of the dataset ds and nothing else
Serializes(file, ds) ==
  /\ file.exists
  /\ file.header = ds.columns
  /\ Len(file.lines) = Len(ds.rows)
  /\ \A i \in 1..Len(ds.rows) : \A c \in Range(ds.columns) :
       file.lines[i][c] = CsvText(ds.rows[i][c])

\* C14: a successful export_to_csv leaves in the destination file exactly
\* the serialization of normalize_records(records, schema_name), whatever
\* the file held before; the output directory exists afterwards, no other
\* file of it is changed, and the call returns the path of the file.
C14_ExportOverwrite ==
  [][(pc = "input" /\ pc' = "exported" /\ export_result'.status = "ok") =>
       LET f == export_result'.path[2]
       IN  /\ f \in Filenames
           /\ export_result'.path = <<"output_dir", f>>
           /\ fs'.dir
           /\ result' = normalize_records(list_of(source, records),
                                          schema_name', today'[2])
           /\ result'.status = "ok"
           /\ Serializes(fs'.files[f], Frame(result'))
           /\ \A g \in Filenames \ {f} : fs'.files[g] = fs.files[g]]_vars

\* an export that replaced a file written before and left its sibling alone
C14_Witness ==
  /\ ExportedOk
  /\ Len(fs.files[Exported].lines) > 0
  /\ fs.files[Exported].bom
  /\ \E g \in Filenames \ {Exported} : fs.files[g] = OldFile


Reloaded == pc = "reloaded"

\* a cell that denotes a whole number
WholeNumber(v) == v[1] \in {"int", "numstr"} \/ (v[1] = "float" /\ v[3] = 0)

\* equal cells, a number being the same number whatever type CSV gave it
SameCell(a, b) == a = b \/ (WholeNumber(a) /\ WholeNumber(b) /\ a[2] = b[2])

\* C15: a dataset normalized under a registered schema, exported, read back
\* as raw records and normalized again on the same day has the same columns
\* in the same order, the same number of rows and equal cells: nulls stay
\* null, integers stay integers, is_late is unchanged.
C15_RoundTrip ==
  Reloaded =>
    /\ reloaded.status = "ok"
    /\ reloaded.columns = result.columns
    /\ Len(reloaded.rows) = Len(result.rows)
    /\ \A i \in 1..Len(result.rows) : \A c \in Range(result.columns) :
         SameCell(reloaded.rows[i][c], result.rows[i][c])


\* C16: normalize_records called with a one-shot iterator that is already
\* exhausted fails: it does not return a dataset.
C16_ExhaustedIteratorFails ==
  [][(pc = "input" /\ pc' = "returned" /\ source = "exhausted") =>
       result'.status = "raised"]_vars

\* C18: when iterating the records argument raises, normalize_records
\* raises that error instead of returning a dataset, and export_to_csv
\* raises it too and leaves the files of the output directory as they were.
C18_IngestionFailurePropagated ==
  [][(pc = "input" /\ pc' \in {"returned", "exported"}
        /\ source = "broken") =>
       /\ result' = Raised("IterationError")
       /\ pc' = "exported" =>
            /\ export_result'.status = "raised"
            /\ export_result'.error = "IterationError"
            /\ fs'.files = fs.files]_vars

\* export_to_csv has raised the iteration's error and the file written
\* before is still there
C18_Witness ==
  /\ pc = "exported"
  /\ source = "broken"
  /\ export_result.status = "raised"
  /\ export_result.error = "IterationError"
  /\ \A f \in Filenames : fs.files[f] = OldFile


BatchDone == pc = "batch_done"

\* the export of the entry would succeed if it were attempted
CanSucceed(d) == normalize_call(d.kind, d.items, d.schema_name, today[2]).status = "ok"

\* the file has been written by this run
Written(f) == fs.files[f].exists /\ fs.files[f].bom

\* C13: in export_many_to_csv a failure while exporting one entry does not
\* prevent the export of the others: every entry whose own export can
\* succeed has its file written.
C13_BatchIndependence ==
  BatchDone =>
    \A i \in 1..Len(datasets) :
      CanSucceed(datasets[i]) => Written(datasets[i].filename)


----------------------------------------------------------------------------
\* Properties of the effects of normalize_records

----------------------------------------------------------------------------
\* Properties of the API pipeline

\* the requests issued for a resource
RequestsOf(resource) ==
  {i \in 1..Len(requests) : requests[i].resource = resource}

\* C19: run_api and export_to_powerbi validate the configuration before any
\* HTTP request (an empty base URL or API key raises RuntimeError and no
\* request is issued); projects are collected before work packages; the CSV
\* export starts only after both collections have completed; when a
\* collection raises OpenProjectAPIError the error is raised again and no
\* CSV file is written or overwritten in that run.
C19_PipelineOrdering ==
  /\ (config.base_url = "" \/ config.api_key = "") =>
       /\ requests = <<>>
       /\ api_pc \in {"start", "failed"}
       /\ api_pc = "failed" => api_result.error = "RuntimeError"
  /\ \A i \in RequestsOf("work_packages") : \A j \in RequestsOf("projects") :
       j < i
  /\ RequestsOf("work_packages") # {} => collected.projects.returned
  /\ (\E f \in Filenames : Written(f)) =>
       /\ entry = "run_api"
       /\ collected.projects.returned
       /\ collected.work_packages.returned
       /\ \A i \in 1..Len(requests) : requests[i].status < 400
  /\ (\E i \in 1..Len(requests) : requests[i].status >= 400) =>
       /\ api_pc = "failed"
       /\ api_result.status = "raised"
       /\ api_result.error = "OpenProjectAPIError"
       /\ \A f \in Filenames : fs.files[f] \in {NoFile, OldFile}

\* the projects were collected, a work_packages page answered with an
\* error, and the CSV files of an earlier run are as they were
C19_Witness ==
  /\ entry = "run_api"
  /\ api_pc = "failed"
  /\ api_result.error = "OpenProjectAPIError"
  /\ Last(requests).resource = "work_packages"
  /\ collected.projects.items # <<>>
  /\ \A f \in Filenames : fs.files[f] = OldFile

\* C20: whenever a page request answers with a status >= 400, the list
\* method raises OpenProjectAPIError, returns no list (the records of the
\* earlier pages are dropped) and issues no further request.
C20_ApiErrorRaises ==
  \A i \in 1..Len(requests) :
    requests[i].status >= 400 =>
      /\ i = Len(requests)
      /\ api_pc = "failed"
      /\ api_result.status = "raised"
      /\ api_result.error = "OpenProjectAPIError"
      /\ ~collected[requests[i].resource].returned
      /\ collected[requests[i].resource].items = <<>>
      /\ loop = NoLoop

\* the second page of a list answered with an error after the first page
\* had delivered records
C20_Witness ==
  /\ Len(requests) >= 2
  /\ Last(requests).status >= 400
  /\ Last(requests).offset = 2
  /\ requests[Len(requests) - 1].resource = Last(requests).resource
  /\ server[Last(requests).resource] > 0
  /\ api_pc = "failed"


----------------------------------------------------------------------------
\* Properties of row preservation, pagination and the client's records

\* C22: for every schema name and every record sequence normalize_records
\* returns one output row per input record, in input order, also when the
\* records are empty mappings or share no key with the schema.
C22_RowPreservation ==
  Returned =>
    /\ result.status = "ok"
    /\ Len(result.rows) = Len(records)
    /\ ~Registered(schema_name) =>
         \A i \in 1..Len(records) : \A c \in Range(result.columns) :
           result.rows[i][c] = RawOrNull(i, c)

\* the elements the server holds for a resource, as the client's dicts
ServerRecords(resource) ==
  [i \in 1..server[resource] |-> element_record(resource, i)]

\* C23: against a server that holds N elements and answers page k with
\* elements (k-1)*page_size+1 .. min(k*page_size, N), count the number of
\* elements on the page and total N, list_projects and list_work_packages
\* return each element once and in server order.
C23_PaginationCompleteness ==
  \A resource \in {"projects", "work_packages"} :
    collected[resource].returned =>
      collected[resource].items = ServerRecords(resource)

\* a list of two elements collected over two pages
C23_Witness ==
  /\ page_size = 1
  /\ server.work_packages = 2
  /\ collected.work_packages.returned
  /\ Cardinality(RequestsOf("work_packages")) = 2
  /\ Len(collected.work_packages.items) = 2

\* C25: for every work package whose percentageDone is an integer in
\* 0..100, 0 included, the record list_work_packages emits has done_ratio
\* equal to that percentageDone.
C25_DoneRatioMapping ==
  \A i \in 1..Len(collected.work_packages.items) :
    LET rec == collected.work_packages.items[i]
    IN  Get(rec, "done_ratio") = PercentageDone(Get(rec, "wp_id")[2])


----------------------------------------------------------------------------
\* Properties of the filter algebra

\* the work_packages rows of the bundle a call of apply_filters returned
RowsOf(r) == r.heap[r.bundle.work_packages].rows

\* apply_filters with the one dimension d of the selection
OneDimension(h, b, sel, d) ==
  apply_filters(h, b, IF d = 1 THEN sel[1] ELSE {},
                      IF d = 2 THEN sel[2] ELSE {},
                      IF d = 3 THEN sel[3] ELSE {})

\* the three dimensions applied one after the other in the order given
OneAtATime(h, b, sel, order) ==
  LET r1 == OneDimension(h, b, sel, order[1])
      r2 == OneDimension(r1.heap, r1.bundle, sel, order[2])
  IN  OneDimension(r2.heap, r2.bundle, sel, order[3])

Orders ==
  {<<1, 2, 3>>, <<1, 3, 2>>, <<2, 1, 3>>, <<2, 3, 1>>, <<3, 1, 2>>,
   <<3, 2, 1>>}

\* C30: the filtered work_packages rows are a sub-sequence of the input
\* rows, in the same relative order and with unchanged values; applying the
\* same filters to the result returns the same rows; applying the three
\* dimensions one at a time in any order gives the rows of applying them
\* together.
C30_FilterAlgebra ==
  Filtered =>
    LET input == heap[bundle.work_packages].rows
        output == heap[filtered.work_packages].rows
    IN  /\ \A k \in 1..Len(output) :
             /\ output[k]["wp_id"][2] \in 1..Len(input)
             /\ output[k] = input[output[k]["wp_id"][2]]
        /\ \A k \in 1..(Len(output) - 1) :
             output[k]["wp_id"][2] < output[k + 1]["wp_id"][2]
        /\ RowsOf(apply_filters(heap, filtered, selection[1], selection[2],
                                selection[3])) = output
        /\ \A order \in Orders :
             RowsOf(OneAtATime(heap, bundle, selection, order)) = output

\* the three filters are set and keep two rows of three
C30_Witness ==
  /\ Filtered
  /\ selection[1] # {} /\ selection[2] # {} /\ selection[3] # {}
  /\ Len(heap[bundle.work_packages].rows) = 3
  /\ Len(heap[filtered.work_packages].rows) = 2


----------------------------------------------------------------------------
\* Properties of the requests of the list methods

\* the requests of one resource, in the order they were sent
RequestSeq(resource) ==
  LET Of(r) == r.resource = resource IN SelectSeq(requests, Of)

C24_PaginationTermination ==
  \A resource \in {"projects", "work_packages"} :
    LET sent == RequestSeq(resource)
        answered == {k \in 1..Len(sent) : sent[k].status < 400}
    IN  /\ collected[resource].returned => Len(sent) >= 1
        /\ \A k \in 1..Len(sent) : sent[k].offset = k
        /\ \A k \in 1..(Len(sent) - 1) : k \in answered /\ sent[k].count > 0
        /\ \A T \in 0..(MaxTotal + MaxElements) :
             (\A k \in answered : sent[k].total = T) =>
               /\ Len(sent) <= (IF T > 1 THEN T ELSE 1)
               /\ (answered # {} /\ Len(sent) >= (IF T > 1 THEN T ELSE 1)) =>
                    api_pc # resource

\* a direct call that returned after two pages of the same total
C24_Witness ==
  /\ entry \in DirectCalls
  /\ api_pc = "done"
  /\ Len(requests) = 2
  /\ requests[1].total = 2 /\ requests[2].total = 2
  /\ requests[2].count > 0


----------------------------------------------------------------------------
\* Properties of the dashboard's authentication

\* s without its leading and trailing spaces
Trimmed(s) ==
  LET inked == {i \in 1..Len(s) : s[i] # " "}
  IN  IF inked = {} THEN <<>>
      ELSE SubSeq(s, CHOOSE i \in inked : \A j \in inked : i <= j,
                     CHOOSE i \in inked : \A j \in inked : j <= i)

\* C26: a run loads, filters and renders data only if the session's
\* is_authenticated flag is true; the flag goes from false to true only in
\* a run where _authenticate_user returned a user: the trimmed username is
\* in the store, that user is active and the hash of the submitted
\* password with the stored salt equals the stored hash.
C26_AuthenticationGate ==
  [][/\ run'.reached_data =>
          session.is_authenticated /\ session'.is_authenticated
     /\ (~session.is_authenticated /\ session'.is_authenticated) =>
          /\ run'.authenticate.called
          /\ run'.authenticate.user.found
          /\ \E i \in 1..Len(users) :
               /\ users[i].username = Trimmed(run'.event.username)
               /\ users[i].is_active = 1
               /\ hash_password(run'.event.password, users[i].password_salt)
                    = users[i].password_hash
               /\ session'.authenticated_user_id = users[i].id]_vars

\* a user who is no administrator has logged in and sees the data, while
\* the store holds an administrator too
C26_Witness ==
  /\ session.is_authenticated
  /\ ~session.authenticated_is_admin
  /\ run.reached_data
  /\ Len(users) = 2

\* C27: _create_user adds exactly one active user and returns (True, ...)
\* if and only if the trimmed username has at least 3 characters, the
\* password has at least 6 characters and no stored user has the trimmed
\* username; otherwise it returns (False, message) and the store is
\* unchanged; stored usernames are pairwise distinct.
C27_UserCreation ==
  [][/\ run'.create.called =>
          LET name == Trimmed(run'.event.username)
              accepted ==
                /\ Len(name) >= 3
                /\ Len(run'.event.password) >= 6
                /\ \A i \in 1..Len(users) : users[i].username # name
          IN  /\ run'.create.ok <=> accepted
              /\ accepted =>
                   /\ Len(users') = Len(users) + 1
                   /\ SubSeq(users', 1, Len(users)) = users
                   /\ users'[Len(users')].username = name
                   /\ users'[Len(users')].is_active = 1
              /\ ~accepted =>
                   users' = users /\ run'.create.message # ""
     /\ ~run'.create.called => users' = users
     /\ \A i, j \in 1..Len(users') :
          i # j => users'[i].username # users'[j].username]_vars

\* a username refused because its trimmed form is in the store
C27_Witness ==
  /\ run.create.called
  /\ ~run.create.ok
  /\ Len(users) = 1
  /\ run.event.username # users[1].username
  /\ Trimmed(run.event.username) = users[1].username
  /\ Len(run.event.password) >= 6

\* C28: while the store holds no user a run offers only the form that
\* creates the administrator and reaches neither the login form nor the
\* dashboard; the user that form creates is an administrator, is created
\* only when password and confirmation are equal, and its creation leaves
\* the session unauthenticated.
C28_AdminBootstrap ==
  [][users = <<>> =>
       /\ run'.shown = "bootstrap_form"
       /\ ~run'.reached_data
       /\ ~run'.create_user_form
       /\ ~run'.authenticate.called
       /\ users' # <<>> =>
            /\ Len(users') = 1
            /\ users'[1].is_admin = 1
            /\ run'.event.kind = "bootstrap"
            /\ run'.event.password = run'.event.confirm
            /\ session' = session
            /\ ~session'.is_authenticated]_vars

\* the administrator has just been created
C28_Witness ==
  /\ run.event.kind = "bootstrap"
  /\ run.create.ok
  /\ Len(users) = 1
  /\ users[1].is_admin = 1
  /\ ~session.is_authenticated

\* C29: the button "Sair" sets is_authenticated to false and clears the
\* user id, the username and the admin flag of the session, and the run
\* after it shows the login form and no data; the create-user form is
\* offered only to a session whose authenticated_is_admin flag is true, and
\* the flag becomes true only by a login as a stored administrator.
C29_Logout ==
  [][/\ run'.event.kind = "sair" =>
          /\ SessionKeys \subseteq session'.keys
          /\ ~session'.is_authenticated
          /\ session'.authenticated_user_id = 0
          /\ session'.authenticated_username = <<>>
          /\ ~session'.authenticated_is_admin
     /\ run.event.kind = "sair" =>
          run'.shown = "login_form" /\ ~run'.reached_data
     /\ run'.create_user_form => session.authenticated_is_admin
     /\ session'.authenticated_is_admin =>
          /\ \E i \in 1..Len(users) :
               /\ users[i].id = session'.authenticated_user_id
               /\ users[i].username = session'.authenticated_username
               /\ users[i].is_admin = 1
          /\ \/ session.authenticated_is_admin
             \/ run'.authenticate.called /\ run'.authenticate.user.found]_vars

\* an administrator has pressed "Sair"
C29_Witness ==
  /\ run.event.kind = "sair"
  /\ run.rerun
  /\ "authenticated_is_admin" \in session.keys
  /\ ~session.is_authenticated

====
